---- MODULE Spec2Model ----
(***************************************************************************)
(* Model of the calibration statistics computed by pycalib/plotting.py:    *)
(* reliability_diagram, confidence_diagram, over_underconfidence_curve and *)
(* confidence_trajectories.  Floating point numbers are modelled as exact  *)
(* rationals [n, d] with d > 0; d = 0 encodes the non-finite results of a  *)
(* numpy division by zero (0/0 = NaN, x/0 = inf).  Rendering calls         *)
(* (matplotlib, texfig) and the external pycalib.scoring functions are not *)
(* part of the model.                                                      *)
(***************************************************************************)
EXTENDS Integers, Sequences, FiniteSets, TLC

\* ------------------------------------------------------------------ bounds
MaxSamples == 3
\* sample sets of the trajectory specification: ties inside one class next to
\* a sample of the other class need four samples
MaxTrajSamples == 4
MaxBins == 3
MaxThreshSteps == 3

\* ------------------------------------------------------ numeric helpers
Abs(x) == IF x < 0 THEN -x ELSE x

RECURSIVE GCD(_, _)
GCD(a, b) == IF b = 0 THEN a ELSE GCD(b, a % b)

\* the float n/d (d > 0), in lowest terms
Rat(n, d) == LET g == GCD(Abs(n), d) IN [n |-> n \div g, d |-> d \div g]

NaN == [n |-> 0, d |-> 0]
Inf == [n |-> 1, d |-> 0]
IsNaN(a) == a.d = 0 /\ a.n = 0
IsFinite(a) == a.d > 0

Zero == Rat(0, 1)
One == Rat(1, 1)

\* ground-truth labels, and the rows of p_pred: class probabilities summing to 1
Labels == {0, 1, 2}
Rows == {<<Zero, One>>, <<Rat(1, 2), Rat(1, 2)>>, <<One, Zero>>}

RAdd(a, b) == Rat(a.n * b.d + b.n * a.d, a.d * b.d)
RSub(a, b) == Rat(a.n * b.d - b.n * a.d, a.d * b.d)
RMul(a, b) == Rat(a.n * b.n, a.d * b.d)
\* numpy true division: a zero divisor gives NaN or inf, never an exception
RDiv(a, b) ==
    IF b.n = 0 THEN (IF a.n = 0 THEN NaN ELSE Inf)
    ELSE IF b.n > 0 THEN Rat(a.n * b.d, a.d * b.n)
    ELSE Rat(-(a.n * b.d), -(a.d * b.n))
RLe(a, b) == a.n * b.d <= b.n * a.d
RLt(a, b) == a.n * b.d < b.n * a.d

SeqRange(s) == {s[i] : i \in DOMAIN s}

RECURSIVE SumInts(_)
SumInts(s) == IF s = <<>> THEN 0 ELSE s[1] + SumInts(Tail(s))

\* np.cumsum of an integer array
CumsumInts(s) == [i \in 1..Len(s) |-> SumInts(SubSeq(s, 1, i))]

RECURSIVE SumRats(_)
SumRats(s) == IF s = <<>> THEN Zero ELSE RAdd(s[1], SumRats(Tail(s)))

\* np.max(p_pred, axis=1) for one row
RowMax(r) == CHOOSE m \in SeqRange(r) : \A v \in SeqRange(r) : RLe(v, m)
\* np.argmax(p_pred, axis=1) for one row: the first index of the maximum, 0-based
RowArgmax(r) == (CHOOSE i \in DOMAIN r : r[i] = RowMax(r) /\ \A j \in DOMAIN r : r[j] = RowMax(r) => i <= j) - 1

\* np.linspace(start, stop, num)
linspace(start, stop, num) ==
    [i \in 1..num |->
        IF num = 1 THEN start
        ELSE RAdd(start, RDiv(RMul(Rat(i - 1, 1), RSub(stop, start)), Rat(num - 1, 1)))]

\* boolean mask indexing a[mask]
RECURSIVE Select(_, _)
Select(a, mask) ==
    IF a = <<>> THEN <<>>
    ELSE (IF mask[1] THEN <<a[1]>> ELSE <<>>) \o Select(Tail(a), Tail(mask))

\* np.sort
RECURSIVE Insert(_, _)
Insert(x, s) ==
    IF s = <<>> THEN <<x>>
    ELSE IF RLe(x, s[1]) THEN <<x>> \o s
    ELSE <<s[1]>> \o Insert(x, Tail(s))

RECURSIVE sort(_)
sort(s) == IF s = <<>> THEN <<>> ELSE Insert(s[1], sort(Tail(s)))

\* ------------------------------------------------------ numpy / scipy binning
\* a.searchsorted(v, 'left') on the samples: how many are < v
CountLess(a, v) == Cardinality({i \in DOMAIN a : RLt(a[i], v)})
\* a.searchsorted(v, 'right') on the samples: how many are <= v
CountLeq(a, v) == Cardinality({i \in DOMAIN a : RLe(a[i], v)})

\* histogram whose last bin excludes its right edge
histogram_open_right(a, edges) ==
    [i \in 1..(Len(edges) - 1) |-> CountLess(a, edges[i + 1]) - CountLess(a, edges[i])]

\* np.histogram(a, bins=edges)[0]: counts between consecutive edges, the
\* last edge inclusive; len(edges) - 1 counts
histogram(a, edges) ==
    LET m == Len(edges)
        cum_n == [j \in 1..m |-> IF j < m THEN CountLess(a, edges[j]) ELSE CountLeq(a, edges[j])]
    IN [i \in 1..(m - 1) |-> cum_n[i + 1] - cum_n[i]]

\* np.digitize(x, edges): number of edges <= x
digitize(x, edges) == Cardinality({j \in DOMAIN edges : RLe(edges[j], x)})

\* binnumber without the move of the rightmost edge into the last bin
binnumber_open_right(x, edges) == digitize(x, edges)

\* bin number scipy assigns to x: 0 and nbins+1 are the outlier bins; a value
\* on the rightmost edge is moved into the last bin
binnumber(x, edges) ==
    LET b == digitize(x, edges)
    IN IF x = edges[Len(edges)] THEN b - 1 ELSE b

\* binned_statistic called with statistic='sum' instead of the default mean
binned_statistic_sum(x, values, nbins, rng) ==
    LET edges == linspace(rng[1], rng[2], nbins + 1)
        members(b) == {i \in DOMAIN x : binnumber(x[i], edges) = b}
    IN [b \in 1..nbins |->
          IF members(b) = {} THEN NaN
          ELSE Rat(Cardinality({i \in members(b) : values[i] = 1}), 1)]

\* scipy.stats.binned_statistic(x, values, 'mean', bins=nbins, range=rng)[0]
binned_statistic(x, values, nbins, rng) ==
    LET smin == IF rng[1] = rng[2] THEN RSub(rng[1], Rat(1, 2)) ELSE rng[1]
        smax == IF rng[1] = rng[2] THEN RAdd(rng[2], Rat(1, 2)) ELSE rng[2]
        edges == linspace(smin, smax, nbins + 1)
        members(b) == {i \in DOMAIN x : binnumber(x[i], edges) = b}
        hits(b) == Cardinality({i \in members(b) : values[i] = 1})
    IN [b \in 1..nbins |-> RDiv(Rat(hits(b), 1), Rat(Cardinality(members(b)), 1))]

\* ------------------------------------------------------ shared preambles
\* len(np.unique(y))
n_unique(labels) == Cardinality(SeqRange(labels))

\* p_max = np.max(p_pred, axis=1)
p_max_of(p) == [i \in DOMAIN p |-> RowMax(p[i])]

\* default range of a binary problem whatever the number of labels
default_range_binary(n_classes) == <<Rat(1, 2), One>>

\* [1 / n_classes, 1]
default_range(n_classes) == <<RDiv(One, Rat(n_classes, 1)), One>>

\* n_classes argument: <<>> is None, <<k>> an explicit class count
resolve_n_classes(arg, labels) == IF arg = <<>> THEN n_unique(labels) ELSE arg[1]

\* hist / np.sum(hist), np.cumsum(hist) / np.sum(hist)
normalise(counts, total) == [i \in DOMAIN counts |-> RDiv(Rat(counts[i], 1), Rat(total, 1))]

\* ------------------------------------------------------ reliability_diagram
\* bin_means as the code computes them
bin_means_of(xlim, n_bins) ==
    linspace(RAdd(xlim[1], RDiv(xlim[2], Rat(2 * n_bins, 1))),
             RSub(xlim[2], RDiv(xlim[2], Rat(2 * n_bins, 1))),
             n_bins)

\* empirical_acc[np.isnan(empirical_acc)] = bin_means[np.isnan(empirical_acc)]
fill_nan(acc, means) == [i \in DOMAIN acc |-> IF IsNaN(acc[i]) THEN means[i] ELSE acc[i]]

reliability_diagram_locals(labels, p, n_bins, xlim_arg) ==
    LET xlim == IF xlim_arg = <<>> THEN default_range(n_unique(labels)) ELSE xlim_arg
        yp == [i \in DOMAIN p |-> RowArgmax(p[i])]
        p_max == p_max_of(p)
        bins == linspace(xlim[1], xlim[2], n_bins + 1)
        bin_means == bin_means_of(xlim, n_bins)
        equal == [i \in DOMAIN p |-> IF yp[i] = labels[i] THEN 1 ELSE 0]
        stat == binned_statistic(p_max, equal, n_bins, xlim)
        hist == histogram(p_max, bins)
    IN [xlim |-> xlim, y_pred |-> yp, p_max |-> p_max, bins |-> bins,
        bin_means |-> bin_means, equal |-> equal,
        isnan |-> [i \in DOMAIN stat |-> IsNaN(stat[i])],
        empirical_acc |-> fill_nan(stat, bin_means),
        hist |-> hist, frac |-> normalise(hist, SumInts(hist)),
        raised |-> "none"]

\* ------------------------------------------------------ confidence_diagram
confidence_diagram_locals(labels, preds, p, n_classes_arg, n_bins) ==
    LET n_classes == resolve_n_classes(n_classes_arg, labels)
        p_max == p_max_of(p)
        bins == linspace(Zero, One, n_bins + 1)
    IN [n_classes |-> n_classes, p_max |-> p_max, bins |-> bins,
        xlim |-> default_range(n_classes),
        hist_false |-> histogram(Select(p_max, [i \in DOMAIN p |-> labels[i] # preds[i]]), bins),
        hist_correct |-> histogram(Select(p_max, [i \in DOMAIN p |-> labels[i] = preds[i]]), bins),
        raised |-> "none"]

\* ------------------------------------------------------ over_underconfidence_curve
\* the edges the curve is binned over
curve_bins(n_bins) == linspace(Zero, One, n_bins)

over_underconfidence_curve_locals(labels, preds, p, n_bins) ==
    LET pred_correct == [i \in DOMAIN p |-> labels[i] = preds[i]]
        p_max == p_max_of(p)
        conf_correct == Select(p_max, pred_correct)
        conf_false == Select(p_max, [i \in DOMAIN p |-> ~pred_correct[i]])
        bins == curve_bins(n_bins)
        conf_false_hist == histogram(conf_false, bins)
        conf_correct_hist == histogram(conf_correct, bins)
    IN [pred_correct |-> pred_correct, conf_correct |-> conf_correct, conf_false |-> conf_false,
        bins |-> bins,
        conf_false_hist |-> conf_false_hist,
        conf_false_cum |-> normalise(CumsumInts(conf_false_hist), SumInts(conf_false_hist)),
        conf_correct_hist |-> conf_correct_hist,
        conf_correct_cum |-> normalise(CumsumInts(conf_correct_hist), SumInts(conf_correct_hist)),
        raised |-> "none"]

\* ------------------------------------------------------ confidence_trajectories
\* np.argmax(a): 0-based index of the first occurrence of the maximum
argmax(a) == (CHOOSE i \in DOMAIN a : (\A j \in DOMAIN a : RLe(a[j], a[i])) /\ (\A j \in 1..(i - 1) : RLt(a[j], a[i]))) - 1

\* elements[elements <= threshold]
below(elements, threshold) == Select(elements, [i \in DOMAIN elements |-> RLe(elements[i], threshold)])

\* np.min(elements) raises ValueError on a zero-size array
np_min_raises(elements) == elements = <<>>

\* index search that answers -1 (the last element) when nothing is below
\* the threshold
index_of_max_element_or_last(elements, threshold) ==
    IF \A i \in DOMAIN elements : RLt(threshold, elements[i]) THEN Len(elements) - 1
    ELSE argmax(below(elements, threshold))

\* defined for a non-empty array
index_of_max_element_below_thresh(elements, threshold) ==
    IF \A i \in DOMAIN elements : RLt(threshold, elements[i]) THEN 0
    ELSE argmax(below(elements, threshold))

\* cummean = lambda x: x.cumsum() / np.arange(1, len(x) + 1)
cummean(x) == [i \in DOMAIN x |-> RDiv(SumRats(SubSeq(x, 1, i)), Rat(i, 1))]

\* fancy indexing a[idx] with 0-based indices
take(a, idx) == [k \in DOMAIN idx |-> a[idx[k] + 1]]

confidence_trajectories_locals(labels, preds, p, n_classes_arg, n_thresh_steps) ==
    LET n_classes == resolve_n_classes(n_classes_arg, labels)
        pred_correct == [i \in DOMAIN p |-> labels[i] = preds[i]]
        n_correct == Cardinality({i \in DOMAIN p : pred_correct[i]})
        accuracy == Rat(n_correct, Len(p))
        inv_odds == RDiv(RSub(One, accuracy), accuracy)
        p_max == p_max_of(p)
        conf_correct == sort(Select(p_max, pred_correct))
        conf_false == sort(Select(p_max, [i \in DOMAIN p |-> ~pred_correct[i]]))
        conf_thresholds == linspace(RDiv(One, Rat(n_classes, 1)), One, n_thresh_steps)
        indices(c) == [k \in DOMAIN conf_thresholds |-> index_of_max_element_below_thresh(c, conf_thresholds[k])]
        raises_correct == n_thresh_steps > 0 /\ np_min_raises(conf_correct)
        raises_false == n_thresh_steps > 0 /\ np_min_raises(conf_false)
        base == [n_classes |-> n_classes, pred_correct |-> pred_correct, accuracy |-> accuracy,
                 inv_odds |-> inv_odds, conf_correct |-> conf_correct, conf_false |-> conf_false,
                 conf_thresholds |-> conf_thresholds]
        unset == [max_els_conf_correct |-> <<>>, max_els_conf_false |-> <<>>,
                  avg_conf_correct |-> <<>>, avg_conf_false |-> <<>>]
    IN IF raises_correct
       THEN base @@ unset @@ [raised |-> "ValueError"]
       ELSE IF raises_false
       THEN base @@ [max_els_conf_correct |-> indices(conf_correct)] @@ unset @@ [raised |-> "ValueError"]
       ELSE base @@ [max_els_conf_correct |-> indices(conf_correct),
                     max_els_conf_false |-> indices(conf_false),
                     avg_conf_correct |-> take(cummean(conf_correct), indices(conf_correct)),
                     avg_conf_false |-> take(cummean(conf_false), indices(conf_false)),
                     raised |-> "none"]

\* ------------------------------------------------------ state machine
VARIABLES y, y_pred, p_pred, pc, call, out
vars == <<y, y_pred, p_pred, pc, call, out>>

\* explicit xlim arguments; <<>> is None
XlimArgs == {<<>>, <<Zero, One>>, <<Zero, Rat(1, 2)>>, <<Rat(1, 4), Rat(3, 4)>>}
\* n_classes arguments; <<>> is None
NClassesArgs == {<<>>, <<2>>, <<3>>}

\* the statistics only use masks, counts, sums and sorted copies of the
\* samples, so one ordering of each collection of samples is enumerated
NotAfter(labels, p, i, j) == labels[i] < labels[j] \/ (labels[i] = labels[j] /\ RLe(p[i][1], p[j][1]))
Ordered(labels, p) == \A i \in 1..(Len(labels) - 1) : NotAfter(labels, p, i, i + 1)

\* a sample set: parallel arrays of equal length, labels of a classification
\* problem (at least two classes occur), probability rows summing to one, and
\* the predicted labels of those rows
InitUpTo(max) ==
    /\ \E n \in 1..max :
        /\ y \in [1..n -> Labels]
        /\ p_pred \in [1..n -> Rows]
    /\ n_unique(y) >= 2
    /\ Ordered(y, p_pred)
    /\ y_pred = [i \in DOMAIN p_pred |-> RowArgmax(p_pred[i])]
    /\ pc = "ready"
    /\ call = [fn |-> "none"]
    /\ out = [raised |-> "none"]

Init == InitUpTo(MaxSamples)

reliability_diagram ==
    /\ pc = "ready"
    /\ \E n_bins \in 1..MaxBins, xlim \in XlimArgs :
        /\ call' = [fn |-> "reliability_diagram", n_bins |-> n_bins, xlim |-> xlim]
        /\ out' = reliability_diagram_locals(y, p_pred, n_bins, xlim)
    /\ pc' = "done"
    /\ UNCHANGED <<y, y_pred, p_pred>>

confidence_diagram ==
    /\ pc = "ready"
    /\ \E n_bins \in 1..MaxBins, n_classes \in NClassesArgs :
        /\ call' = [fn |-> "confidence_diagram", n_bins |-> n_bins, n_classes |-> n_classes]
        /\ out' = confidence_diagram_locals(y, y_pred, p_pred, n_classes, n_bins)
    /\ pc' = "done"
    /\ UNCHANGED <<y, y_pred, p_pred>>

over_underconfidence_curve ==
    /\ pc = "ready"
    /\ \E n_bins \in 1..MaxBins :
        /\ call' = [fn |-> "over_underconfidence_curve", n_bins |-> n_bins]
        /\ out' = over_underconfidence_curve_locals(y, y_pred, p_pred, n_bins)
    /\ pc' = "done"
    /\ UNCHANGED <<y, y_pred, p_pred>>

confidence_trajectories ==
    /\ pc = "ready"
    /\ \E n_thresh_steps \in 1..MaxThreshSteps, n_classes \in NClassesArgs :
        /\ call' = [fn |-> "confidence_trajectories", n_thresh_steps |-> n_thresh_steps,
                    n_classes |-> n_classes]
        /\ out' = confidence_trajectories_locals(y, y_pred, p_pred, n_classes, n_thresh_steps)
    /\ pc' = "done"
    /\ UNCHANGED <<y, y_pred, p_pred>>

Next ==
    \/ reliability_diagram
    \/ confidence_diagram
    \/ over_underconfidence_curve
    \/ confidence_trajectories

Spec == Init /\ [][Next]_vars

\* confidence_trajectories alone, on the larger sample sets
InitTraj == InitUpTo(MaxTrajSamples)
NextTraj == confidence_trajectories
SpecTraj == InitTraj /\ [][NextTraj]_vars

TypeOK == pc \in {"ready", "done"}

\* ------------------------------------------------------ vocabulary of the properties
RD == call.fn = "reliability_diagram"
CD == call.fn = "confidence_diagram"
OU == call.fn = "over_underconfidence_curve"
CT == call.fn = "confidence_trajectories"

StrictlyIncreasing(s) == \A i \in 1..(Len(s) - 1) : RLt(s[i], s[i + 1])
NonDecreasing(s) == \A i \in 1..(Len(s) - 1) : RLe(s[i], s[i + 1])
NonDecreasingInts(s) == \A i \in 1..(Len(s) - 1) : s[i] <= s[i + 1]

\* left edge of bin i (1-based) of the partition of rng into n equal-width
\* bins; EdgeOf(rng, n, n + 1) is the right end of the range
EdgeOf(rng, n, i) == RAdd(rng[1], RDiv(RMul(Rat(i - 1, 1), RSub(rng[2], rng[1])), Rat(n, 1)))

\* p lies in bin i: left edge inclusive, right edge exclusive, except that the
\* last bin includes the right end of the range
InBin(p, rng, n, i) ==
    /\ RLe(EdgeOf(rng, n, i), p)
    /\ \/ RLt(p, EdgeOf(rng, n, i + 1))
       \/ i = n /\ p = rng[2]

\* largest class probability of sample k, and whether its index is the label
Confidence(k) == CHOOSE v \in SeqRange(p_pred[k]) : \A w \in SeqRange(p_pred[k]) : RLe(w, v)
Correct(k) == RowArgmax(p_pred[k]) = y[k]
Members(rng, n, i) == {k \in DOMAIN y : InBin(Confidence(k), rng, n, i)}
InRange(rng) == {k \in DOMAIN y : RLe(rng[1], Confidence(k)) /\ RLe(Confidence(k), rng[2])}

\* 1 / (number of distinct labels in y)
Floor(labels) == Rat(1, Cardinality({labels[i] : i \in DOMAIN labels}))

\* ------------------------------------------------------ C1
\* C1: every binning operation builds n_bins + 1 strictly increasing edges,
\* which delimit exactly n_bins bins.
C1_BinEdges ==
    (RD \/ CD \/ OU) =>
        /\ Len(out.bins) = call.n_bins + 1
        /\ StrictlyIncreasing(out.bins)

\* ------------------------------------------------------ C2
\* C2: in reliability_diagram the accuracy reported for a bin without samples
\* is the midpoint (left edge + right edge) / 2 of that bin, for every range.
C2_EmptyBinMidpoint ==
    RD => \A i \in 1..call.n_bins :
            Members(out.xlim, call.n_bins, i) = {} =>
                out.empirical_acc[i] = RDiv(RAdd(EdgeOf(out.xlim, call.n_bins, i),
                                                 EdgeOf(out.xlim, call.n_bins, i + 1)), Rat(2, 1))

\* ------------------------------------------------------ C3
\* C3: in reliability_diagram the accuracy of a populated bin is the number of
\* its samples whose predicted label (index of the largest class probability)
\* equals the true label, divided by the number of its samples; a sample
\* belongs to the bin of the equal-width partition its largest probability
\* lies in (last bin closed on the right), and to no bin outside the range.
C3_PopulatedBinAccuracy ==
    RD => \A i \in 1..call.n_bins :
            LET members == Members(out.xlim, call.n_bins, i)
                hits == {k \in members : Correct(k)}
            IN members # {} =>
                /\ ~out.isnan[i]
                /\ out.empirical_acc[i] = Rat(Cardinality(hits), Cardinality(members))

\* a populated bin with both a correct and an incorrect sample, a sample on the
\* right end of the range and a sample outside the range
C3_Witness ==
    /\ RD
    /\ \E i \in 1..call.n_bins :
        /\ \E k \in Members(out.xlim, call.n_bins, i) : Correct(k)
        /\ \E k \in Members(out.xlim, call.n_bins, i) : ~Correct(k)
    /\ \E k \in DOMAIN y : Confidence(k) = out.xlim[2]
    /\ \E k \in DOMAIN y : k \notin InRange(out.xlim)

\* ------------------------------------------------------ C4
\* C4: each cumulative confidence curve of over_underconfidence_curve whose
\* class has at least one sample is a non-decreasing sequence of values in
\* [0,1] whose last value is exactly 1, for every number of bins.
CurveOK(conf, cum) ==
    conf # <<>> =>
        /\ cum # <<>>
        /\ NonDecreasing(cum)
        /\ \A i \in DOMAIN cum : IsFinite(cum[i]) /\ RLe(Zero, cum[i]) /\ RLe(cum[i], One)
        /\ cum[Len(cum)] = One

C4_CumulativeCurves ==
    OU => /\ CurveOK(out.conf_false, out.conf_false_cum)
          /\ CurveOK(out.conf_correct, out.conf_correct_cum)

\* ------------------------------------------------------ C5
\* C5: in confidence_trajectories the trajectory value at a threshold t that
\* at least one confidence of the class does not exceed is the mean of all
\* confidences of the class that are <= t, ties included.
RECURSIVE SumOver(_, _)
SumOver(S, c) ==
    IF S = {} THEN Zero
    ELSE LET i == CHOOSE j \in S : TRUE IN RAdd(c[i], SumOver(S \ {i}, c))

MeanBelow(conf, t) ==
    LET sel == {i \in DOMAIN conf : RLe(conf[i], t)}
    IN RDiv(SumOver(sel, conf), Rat(Cardinality(sel), 1))

TrajectoryIsMean(conf, avg) ==
    \A k \in DOMAIN out.conf_thresholds :
        (\E i \in DOMAIN conf : RLe(conf[i], out.conf_thresholds[k])) =>
            /\ k \in DOMAIN avg
            /\ avg[k] = MeanBelow(conf, out.conf_thresholds[k])

C5_RunningMean ==
    (CT /\ out.raised = "none") =>
        /\ TrajectoryIsMean(out.conf_correct, out.avg_conf_correct)
        /\ TrajectoryIsMean(out.conf_false, out.avg_conf_false)

\* ------------------------------------------------------ C6
\* C6: no statistics operation raises on a numeric edge case (empty class,
\* empty bin, division by a zero count): it completes with NaN/inf values.
C6_NoFailure ==
    pc = "done" => out.raised = "none"

\* ------------------------------------------------------ C7
\* C7: in reliability_diagram the accuracy of every populated bin lies in [0,1].
C7_AccuracyInUnitInterval ==
    RD => \A i \in 1..call.n_bins :
            Members(out.xlim, call.n_bins, i) # {} =>
                /\ IsFinite(out.empirical_acc[i])
                /\ RLe(Zero, out.empirical_acc[i])
                /\ RLe(out.empirical_acc[i], One)

\* a bin holding two correct samples next to a bin holding only incorrect ones
C7_Witness ==
    /\ RD
    /\ \E i \in 1..call.n_bins :
        /\ Cardinality({k \in Members(out.xlim, call.n_bins, i) : Correct(k)}) >= 2
        /\ out.empirical_acc[i] = One
    /\ \E i \in 1..call.n_bins :
        /\ Members(out.xlim, call.n_bins, i) # {}
        /\ out.empirical_acc[i] = Zero

\* ------------------------------------------------------ C8
\* C8: without an explicit range / class count the confidence range is
\* [1/n_classes, 1] with n_classes the number of distinct labels in y, for the
\* bins of reliability_diagram and the threshold grid of
\* confidence_trajectories; an explicit xlim / n_classes is used unchanged.
GridOver(grid, lo, hi) ==
    /\ grid[1] = lo
    /\ Len(grid) >= 2 => grid[Len(grid)] = hi
    /\ \A i \in DOMAIN grid : RLe(lo, grid[i]) /\ RLe(grid[i], hi)

C8_DefaultConfidenceFloor ==
    /\ RD => /\ call.xlim = <<>> => out.xlim = <<Floor(y), One>>
             /\ call.xlim # <<>> => out.xlim = call.xlim
             /\ GridOver(out.bins, out.xlim[1], out.xlim[2])
    /\ CT => /\ call.n_classes = <<>> => GridOver(out.conf_thresholds, Floor(y), One)
             /\ call.n_classes # <<>> => GridOver(out.conf_thresholds, Rat(1, call.n_classes[1]), One)

\* three distinct labels: the default floor 1/3 is used by both operations
C8_Witness ==
    /\ Floor(y) = Rat(1, 3)
    /\ \/ RD /\ call.xlim = <<>> /\ out.bins[1] = Rat(1, 3)
       \/ CT /\ call.n_classes = <<>> /\ out.conf_thresholds[1] = Rat(1, 3)
             /\ Len(out.conf_thresholds) >= 2

\* ------------------------------------------------------ C9
\* C9: in reliability_diagram the accuracy binning and the sample-fraction
\* histogram are the same partition of the same samples: the count of bin i
\* is 0 exactly when the accuracy of bin i was replaced by the fallback, a
\* sample outside the range is counted in neither, and the sample fractions
\* sum to 1 when a sample is in range.
C9_SamePartition ==
    RD => /\ \A i \in 1..call.n_bins : (out.hist[i] = 0) <=> out.isnan[i]
          /\ Len(out.hist) = call.n_bins
          /\ \A i \in 1..call.n_bins : out.hist[i] = Cardinality(Members(out.xlim, call.n_bins, i))
          /\ SumInts(out.hist) = Cardinality(InRange(out.xlim))
          /\ InRange(out.xlim) # {} => SumRats(out.frac) = One

\* a sample in range, a sample out of range and an empty bin
C9_Witness ==
    /\ RD
    /\ InRange(out.xlim) # {}
    /\ \E k \in DOMAIN y : k \notin InRange(out.xlim)
    /\ \E i \in 1..call.n_bins : out.hist[i] = 0 /\ out.isnan[i]
    /\ \E i \in 1..call.n_bins : out.hist[i] >= 2

\* ------------------------------------------------------ C10
\* C10: in confidence_trajectories, for a non-empty class, the selected index
\* never decreases as the threshold grows, is 0 while the threshold is below
\* every confidence of the class, stays within the class's array, and the
\* trajectory values are non-decreasing.
IndexOK(conf, idx) ==
    /\ NonDecreasingInts(idx)
    /\ \A k \in DOMAIN idx :
        /\ idx[k] \in 0..(Len(conf) - 1)
        /\ (\A j \in DOMAIN conf : RLt(out.conf_thresholds[k], conf[j])) => idx[k] = 0

C10_MonotoneTrajectories ==
    CT => /\ out.conf_correct # <<>> =>
                /\ Len(out.max_els_conf_correct) = call.n_thresh_steps
                /\ IndexOK(out.conf_correct, out.max_els_conf_correct)
          /\ (out.conf_correct # <<>> /\ out.conf_false # <<>>) =>
                /\ Len(out.max_els_conf_false) = call.n_thresh_steps
                /\ IndexOK(out.conf_false, out.max_els_conf_false)
                /\ Len(out.avg_conf_correct) = call.n_thresh_steps
                /\ Len(out.avg_conf_false) = call.n_thresh_steps
                /\ NonDecreasing(out.avg_conf_correct)
                /\ NonDecreasing(out.avg_conf_false)

\* the first threshold is below every confidence of a class (index 0) and the
\* index of that class grows later on
C10_Witness ==
    /\ CT
    /\ out.raised = "none"
    /\ \A j \in DOMAIN out.conf_correct : RLt(out.conf_thresholds[1], out.conf_correct[j])
    /\ out.max_els_conf_correct[1] = 0
    /\ out.max_els_conf_correct[Len(out.max_els_conf_correct)] > 0
    /\ out.avg_conf_correct[1] # out.avg_conf_correct[Len(out.avg_conf_correct)]

====
